---- MODULE Spec2Model ----
(***************************************************************************)
(* Quorum: the capture (recording) and transcode (encoding) job pipeline,  *)
(* the delivery of webhooks, the relay of chunks to stream Destinations    *)
(* and the participant tracker.                                            *)
(*                                                                         *)
(* Meetings (Sessions) and recordings (Artifacts) are rows of the          *)
(* relational store; recording and encoding jobs live in two BullMQ queues *)
(* and are run by processRecordingJob / processEncodingJob.  Every await   *)
(* of a handler is a point where another handler, or an API route, may     *)
(* run, and a point where the awaited call may reject.                     *)
(*                                                                         *)
(* Eight specifications share the variables:                               *)
(*   Spec      the pipeline: several jobs, a few handler invocations;      *)
(*   Retry     one recording job and its encoding jobs through every       *)
(*             attempt, with DELETE /meetings/:id removing rows;           *)
(*   Delivery  WebhookService.trigger publishing one event to the          *)
(*             webhooks (Destinations) of an organization;                 *)
(*   Relay     the chunk relay of one capture to one stream Destination,   *)
(*             over HTTP POST or a WebSocket;                              *)
(*   Sharing   the relay next to another capture of the organization that  *)
(*             ends its stream on the same Destination;                    *)
(*   Tracker   one ParticipantTracker from startTracking to stopTracking;  *)
(*   Transcode one transcode job await by await, with its local files;     *)
(*   Capture   one capture job with the terminal events it publishes.      *)
(*                                                                         *)
(* The statuses are the ones the handlers write (RECORDING, COMPLETED,     *)
(* FAILED; RAW, ENCODING, ENCODED, FAILED).  Time is abstracted: a backoff *)
(* delay is a number on the job, or a position of the delivery chain, and  *)
(* only postpones what follows it.                                         *)
(***************************************************************************)
EXTENDS Integers, Sequences, FiniteSets, TLC

VARIABLES
    meetings,      \* meetings table: id -> status (FAILED is written with its error text)
    recordings,    \* recordings table: set of rows [id, meetingId, status] (Transcode: and encoded fields, error)
    recJobs,       \* "recording" queue: job id -> job and the position of its handler
    encJobs,       \* "encoding" queue: job id -> job and the position of its handler
    webhooks,      \* webhooks table: id -> the fields deliverWebhook reads
    trigger,       \* the running WebhookService.trigger call: position and payload
    calls,         \* webhook id -> the deliverWebhook call chain for it
    deliveries,    \* webhook_deliveries table: webhook id -> its rows, oldest first
    dbFaults,      \* rejections of webhook database calls so far
    relay,         \* the chunk relay of one capture: position, chunkIndex, lastStreamedSize
    streams,       \* caller -> the streamChunk call it made (0 is the final chunk)
    sockets,       \* every WebSocket created for the Destination: state and frames sent
    wsConnections, \* StreamingService.wsConnections entry of the Destination (0: none)
    delivered,     \* chunks the Destination received, in order of receipt
    tracker,       \* ParticipantTracker: platform, pollInterval, participants
    polls,         \* poll tick -> position, snapshot and timestamp of pollParticipants
    events,        \* ParticipantTracker.events, the ordered log
    forwarded,     \* events passed to the onUpdate callback, in call order
    clock,         \* the wall clock read by new Date()
    transcode,     \* one transcode invocation's locals and the ./temp directory
    sessionEvents  \* MEETING_COMPLETED / MEETING_FAILED events published, per invocation

pipelineVars == <<meetings, recordings, recJobs, encJobs>>

\* Webhook delivery runs inside a handler's await and touches none of the
\* pipeline's rows; the pipeline's actions leave its state alone.
hookVars == <<webhooks, trigger, calls, deliveries, dbFaults>>

\* The chunk relay of a capture runs inside the capture's await of the
\* recorder; the participant tracker runs inside the recorder.
relayVars == <<relay, streams, sockets, wsConnections, delivered>>

trackerVars == <<tracker, polls, events, forwarded, clock>>

\* What the detailed models of one handler invocation keep on top of the
\* job and the rows.
handlerVars == <<transcode, sessionEvents>>

vars == <<meetings, recordings, recJobs, encJobs,
          webhooks, trigger, calls, deliveries, dbFaults,
          relay, streams, sockets, wsConnections, delivered,
          tracker, polls, events, forwarded, clock,
          transcode, sessionEvents>>

(***************************************************************************)
(* Bounds of the model.                                                    *)
(***************************************************************************)
NumMeetings == 1     \* meetings in the store
MaxRecJobs == 2      \* recording jobs added over a run
MaxEncJobs == 1      \* encoding jobs added over a run
MaxLeases == 2       \* handler invocations (both queues) over a run
MaxRetryCount == 2   \* largest retryCount a webhook of the model is given
MaxDbFaults == 1     \* rejections of webhook database calls over a run
MaxTicks == 1        \* runs of the relay's interval callback over a capture
MaxBytes == 2        \* size the output file grows to
MaxPolls == 3        \* polls of the participant tracker, the first one included
MaxClock == 1        \* readings the clock advances by
MaxEncodedSize == 2  \* largest size of an encoded output file

\* Room for one row more than the unique index allows.
MaxRecordings == NumMeetings + 1

(***************************************************************************)
(* Program constants.                                                      *)
(***************************************************************************)
RecordingAttempts == 3
EncodingAttempts == 2
RecordingBackoffDelay == 5000    \* ms, backoff: {type: "exponential", delay: 5000}
EncodingBackoffDelay == 10000    \* ms, backoff: {type: "exponential", delay: 10000}
RecordingConcurrency == 3
EncodingConcurrency == 2

RetryCountMaximum == 10          \* retryCount: t.Number({minimum: 0, maximum: 10})

Meetings == 1..NumMeetings
RecJobIds == 1..MaxRecJobs
EncJobIds == 1..MaxEncJobs

NoRecJob ==
    [state |-> "none", meetingId |-> 0, attemptsMade |-> 0, pc |-> "idle",
     file |-> "none", streamEnd |-> "no", rec |-> 0, delay |-> 0]

NoEncJob ==
    [state |-> "none", recordingId |-> 0, attemptsMade |-> 0, pc |-> "idle", delay |-> 0]

\* The webhooks of the organization, all active and subscribed to the events
\* the model publishes; each has its own secret.
WebhookIds == {"wh1", "wh2"}

RetryCounts == {n \in 0..RetryCountMaximum : n <= MaxRetryCount}

NoHeaders == [n \in {} |-> ""]

\* Custom headers a webhook is created with (any record of strings is
\* accepted): none, one of its own, or one under the name of a header
\* deliverWebhook sets, here a signature made elsewhere under another key.
CustomHeaders ==
    {NoHeaders,
     [n \in {"X-Api-Key"} |-> "key"],
     [n \in {"X-Webhook-Signature"} |-> <<"sha256=", <<"hmac-sha256", <<"secret", "other">>, <<>>>>>>]}

Webhook(w, retryCount, headers) ==
    [id |-> w, secret |-> <<"secret", w>>, retryCount |-> retryCount, headers |-> headers]

NoTrigger == [pc |-> "idle", payload |-> [event |-> "none", timestamp |-> "none", data |-> "none"]]

NoRequest == [headers |-> NoHeaders, body |-> <<>>]

NoCall ==
    [pc |-> "idle", attempt |-> 0, delivery |-> 0, response |-> "none",
     posts |-> 0, oks |-> 0, faulted |-> FALSE, request |-> NoRequest, result |-> "none"]

PipelineIdle ==
    /\ meetings = [m \in Meetings |-> "PENDING"]
    /\ recordings = {}
    /\ recJobs = [j \in RecJobIds |-> NoRecJob]
    /\ encJobs = [j \in EncJobIds |-> NoEncJob]

HooksIdle ==
    /\ trigger = NoTrigger
    /\ calls = [w \in WebhookIds |-> NoCall]
    /\ deliveries = [w \in WebhookIds |-> <<>>]
    /\ dbFaults = 0

\* No webhook is registered and no event is being published.
NoHooks ==
    /\ webhooks = <<>>
    /\ trigger = NoTrigger
    /\ calls = <<>>
    /\ deliveries = <<>>
    /\ dbFaults = 0

\* No relay runs: no stream Destination is active.
NoRelay ==
    /\ relay = <<>>
    /\ streams = <<>>
    /\ sockets = <<>>
    /\ wsConnections = 0
    /\ delivered = <<>>

\* No tracker runs: trackParticipants is false.
NoTracker ==
    /\ tracker = <<>>
    /\ polls = <<>>
    /\ events = <<>>
    /\ forwarded = <<>>
    /\ clock = 0

\* No detailed invocation runs.
NoTranscode == [timestamp |-> 0, temp |-> {}, error |-> "null", size |-> 0]

NoHandlers ==
    /\ transcode = NoTranscode
    /\ sessionEvents = <<>>

Init ==
    /\ PipelineIdle
    /\ NoHooks
    /\ NoRelay
    /\ NoTracker
    /\ NoHandlers

(***************************************************************************)
(* Record store.                                                           *)
(***************************************************************************)
\* A meeting row is there until DELETE /meetings/:id removes it.
MeetingExists(m) == meetings[m] # "absent"

\* db.meeting.update rejects ("record to update not found") without the row.
MeetingUpdate(m, status) ==
    /\ MeetingExists(m)
    /\ meetings' = [meetings EXCEPT ![m] = status]

RecordingOf(m) == {r \in recordings : r.meetingId = m}

\* The row with this id; a row removed with its meeting stays in the model as
\* an "absent" row so that its id is not given to a later row.
RecordingById(id) == {r \in recordings : r.id = id /\ r.status # "absent"}

\* Mutant: the unique index is missing, every insert is accepted.
UniqueMeetingIdDropped(m) == TRUE

\* CREATE UNIQUE INDEX "recordings_meetingId_key": a second row for the same
\* meeting is rejected.
UniqueMeetingId(m) == RecordingOf(m) = {}

NewRecordingId == Cardinality(recordings) + 1

\* The insert needs the meeting row (recordings_meetingId_fkey).
RecordingCreate(m) ==
    /\ MeetingExists(m)
    /\ recordings' = recordings \cup
        {[id |-> NewRecordingId, meetingId |-> m, status |-> "RAW"]}

\* db.recording.update rejects without the row.
RecordingUpdate(id, status) ==
    /\ RecordingById(id) # {}
    /\ recordings' = {IF r.id = id THEN [r EXCEPT !.status = status] ELSE r : r \in recordings}

\* DELETE /meetings/:id: the row is found and deleted; its recordings go with
\* it (ON DELETE CASCADE).
DeleteMeeting(m) ==
    /\ MeetingExists(m)
    /\ meetings' = [meetings EXCEPT ![m] = "absent"]
    /\ recordings' = {IF r.meetingId = m THEN [r EXCEPT !.status = "absent"] ELSE r : r \in recordings}
    /\ UNCHANGED <<recJobs, encJobs>>
    /\ UNCHANGED <<hookVars, relayVars, trackerVars, handlerVars>>

(***************************************************************************)
(* Job store: the "recording" queue.                                       *)
(***************************************************************************)
Enqueued(jobs) == {j \in DOMAIN jobs : jobs[j].state # "none"}

Active(jobs) == {j \in DOMAIN jobs : jobs[j].state = "active"}

\* Handler invocations a job has had: the failed attempts, and the running or
\* the successful one.
Invocations(job) ==
    job.attemptsMade + (IF job.state \in {"active", "completed"} THEN 1 ELSE 0)

RECURSIVE SumInvocations(_, _)
SumInvocations(jobs, ids) ==
    IF ids = {} THEN 0
    ELSE LET j == CHOOSE x \in ids : TRUE IN
         Invocations(jobs[j]) + SumInvocations(jobs, ids \ {j})

\* Invocations of both handlers so far; the model explores MaxLeases of them.
LeasesMade == SumInvocations(recJobs, RecJobIds) + SumInvocations(encJobs, EncJobIds)

\* POST /jobs/recordings/start: the meeting exists, a new job is added.
StartRecordingJob(m) ==
    /\ MeetingExists(m)
    /\ Cardinality(Enqueued(recJobs)) < MaxRecJobs
    /\ LET j == Cardinality(Enqueued(recJobs)) + 1 IN
        recJobs' = [recJobs EXCEPT ![j] = [NoRecJob EXCEPT !.state = "waiting", !.meetingId = m]]
    /\ UNCHANGED <<meetings, recordings, encJobs>>
    /\ UNCHANGED <<hookVars, relayVars, trackerVars, handlerVars>>

\* The recording worker takes a waiting job while fewer than `concurrency` run.
TakeRecordingJob(j) ==
    /\ recJobs[j].state = "waiting"
    /\ Cardinality(Active(recJobs)) < RecordingConcurrency
    /\ recJobs' = [recJobs EXCEPT ![j].state = "active", ![j].pc = "start",
                                  ![j].streamEnd = "no"]
    /\ UNCHANGED <<meetings, recordings, encJobs>>
    /\ UNCHANGED <<hookVars, relayVars, trackerVars, handlerVars>>

\* The same, within the invocations the pipeline model explores.
LeaseRecordingJob(j) ==
    /\ recJobs[j].state = "waiting"
    /\ LeasesMade < MaxLeases
    /\ TakeRecordingJob(j)

\* The processor returned: the job is completed.
RecJobReturned(j) ==
    [recJobs[j] EXCEPT !.state = "completed", !.pc = "idle", !.file = "none", !.rec = 0]

\* The backoff options the jobs of each queue are added with.
RecordingBackoff == [type |-> "exponential", delay |-> RecordingBackoffDelay]

EncodingBackoff == [type |-> "exponential", delay |-> EncodingBackoffDelay]

\* Mutant: the delay doubles from the first retry on, base * 2^n.
BackoffDelayFromZero(delay, attemptsMade) == delay * 2 ^ attemptsMade

\* BullMQ's built-in "exponential" backoff: the delay before the retry that
\* follows the attemptsMade-th failed attempt.  The options name no ceiling.
BackoffDelay(delay, attemptsMade) == delay * 2 ^ (attemptsMade - 1)

\* Mutant: a failed job is retried whatever its attempts.
RecJobThrownRetriesForever(j) ==
    [recJobs[j] EXCEPT !.state = "waiting", !.attemptsMade = @ + 1, !.pc = "idle",
                       !.file = "none", !.streamEnd = "no", !.rec = 0]

\* The processor threw: one more attempt made; retried, after the backoff
\* delay, while attempts remain.
RecJobThrown(j) ==
    LET made == recJobs[j].attemptsMade + 1 IN
    [recJobs[j] EXCEPT !.state = IF made < RecordingAttempts THEN "waiting" ELSE "failed",
                       !.attemptsMade = made, !.pc = "idle",
                       !.file = "none", !.streamEnd = "no", !.rec = 0,
                       !.delay = IF made < RecordingAttempts
                                 THEN BackoffDelay(RecordingBackoff.delay, made) ELSE 0]

(***************************************************************************)
(* processRecordingJob, one action per await that reads or writes the      *)
(* record store; the awaits between two of them touch nothing that another *)
(* handler sees and are taken together with a neighbouring one.  Each      *)
(* awaited call either resolves or rejects; a rejection inside the try     *)
(* block enters the catch block.                                           *)
(***************************************************************************)
RecAt(j, pc) == recJobs[j].state = "active" /\ recJobs[j].pc = pc

RecGoto(j, pc) == recJobs' = [recJobs EXCEPT ![j].pc = pc]

\* Mutant: the catch block does not call notifyStreamEnd.
CatchStreamEndNotCalled(sofar, resolved) == sofar

\* catch, first await: notifyStreamEnd(...).catch(() => {}).  "sent" when the
\* notification went out in this invocation, here or at line 188; "failed"
\* when it never went out and the rejection of this call was swallowed.
CatchStreamEnd(sofar, resolved) ==
    IF sofar = "sent" \/ resolved THEN "sent" ELSE "failed"

\* A rejection in the try block: the catch block runs up to its first await,
\* notifyStreamEnd, which resolves or rejects.  `job` is the job as the try
\* block left it.
RecThrow(j, job) ==
    \E resolved \in BOOLEAN :
        recJobs' = [recJobs EXCEPT ![j] =
            [job EXCEPT !.pc = "setFailed",
                        !.streamEnd = CatchStreamEnd(job.streamEnd, resolved)]]

\* db.meeting.update({status: "RECORDING", actualStart})
RecSetRecording(j) ==
    /\ RecAt(j, "start")
    /\ \/ /\ MeetingUpdate(recJobs[j].meetingId, "RECORDING")
          /\ RecGoto(j, "run")
       \/ /\ RecThrow(j, recJobs[j])
          /\ UNCHANGED meetings
    /\ UNCHANGED <<recordings, encJobs>>
    /\ UNCHANGED <<hookVars, relayVars, trackerVars, handlerVars>>

\* The output file the recorder leaves when it reports success: startRecording
\* returns {success: true, filePath} without looking at the file.
OutputFiles == {"ok", "zero", "missing"}

\* readFile(videoFilePath) rejects when the file is absent; an empty file is
\* read, measured and uploaded like any other.
ReadableFile(f) == f # "missing"

\* Lines 38-210: "meeting started" webhook, stream start, bot account lookup,
\* relay interval, recorder.record(...), the check of result.success, final
\* chunk, notifyStreamEnd, readFile/stat and the uploads.
RecCapture(j) ==
    /\ RecAt(j, "run")
    /\ \/ \* a step up to and including notifyStreamEnd rejects, or the
          \* recorder reports failure
          RecThrow(j, recJobs[j])
       \/ \* notifyStreamEnd resolved; readFile, stat or an upload rejects
          \E f \in OutputFiles :
            RecThrow(j, [recJobs[j] EXCEPT !.file = f, !.streamEnd = "sent"])
       \/ \* everything up to the uploads resolved
          \E f \in OutputFiles :
            /\ ReadableFile(f)
            /\ recJobs' = [recJobs EXCEPT ![j].pc = "create", ![j].file = f,
                                          ![j].streamEnd = "sent"]
    /\ UNCHANGED <<meetings, recordings, encJobs>>
    /\ UNCHANGED <<hookVars, relayVars, trackerVars, handlerVars>>

\* Mutant: the handler goes on to the COMPLETED update without a row.
RecCreateRecordingSkipped(j) ==
    /\ RecAt(j, "create")
    /\ RecGoto(j, "complete")
    /\ UNCHANGED <<meetings, recordings, encJobs>>
    /\ UNCHANGED <<hookVars, relayVars, trackerVars, handlerVars>>

\* db.recording.create({status: "RAW", fileSize: videoStats.size, meetingId})
RecCreateRecording(j) ==
    /\ RecAt(j, "create")
    /\ \/ /\ UniqueMeetingId(recJobs[j].meetingId)
          /\ Cardinality(recordings) < MaxRecordings
          /\ RecordingCreate(recJobs[j].meetingId)
          /\ recJobs' = [recJobs EXCEPT ![j].pc = "complete", ![j].rec = NewRecordingId]
       \/ /\ RecThrow(j, recJobs[j])
          /\ UNCHANGED recordings
    /\ UNCHANGED <<meetings, encJobs>>
    /\ UNCHANGED <<hookVars, relayVars, trackerVars, handlerVars>>

\* db.meeting.update({status: "COMPLETED", actualEnd})
RecSetCompleted(j) ==
    /\ RecAt(j, "complete")
    /\ \/ /\ MeetingUpdate(recJobs[j].meetingId, "COMPLETED")
          /\ RecGoto(j, "notify")
       \/ /\ RecThrow(j, recJobs[j])
          /\ UNCHANGED meetings
    /\ UNCHANGED <<recordings, encJobs>>
    /\ UNCHANGED <<hookVars, relayVars, trackerVars, handlerVars>>

\* "meeting completed" and "recording ready" webhooks, job.updateProgress(100),
\* then the processor returns.
RecNotifyCompleted(j) ==
    /\ RecAt(j, "notify")
    /\ \/ recJobs' = [recJobs EXCEPT ![j] = RecJobReturned(j)]
       \/ RecThrow(j, recJobs[j])
    /\ UNCHANGED <<meetings, recordings, encJobs>>
    /\ UNCHANGED <<hookVars, relayVars, trackerVars, handlerVars>>

\* catch, after notifyStreamEnd: db.meeting.update({status: "FAILED",
\* actualEnd, error}), the "meeting failed" webhook (a rejection is
\* swallowed), throw error.  When the update rejects, its error is thrown.
RecSetFailed(j) ==
    /\ RecAt(j, "setFailed")
    /\ \/ MeetingUpdate(recJobs[j].meetingId, "FAILED")
       \/ UNCHANGED meetings
    /\ recJobs' = [recJobs EXCEPT ![j] = RecJobThrown(j)]
    /\ UNCHANGED <<recordings, encJobs>>
    /\ UNCHANGED <<hookVars, relayVars, trackerVars, handlerVars>>

ProcessRecordingJob(j) ==
    \/ RecSetRecording(j)
    \/ RecCapture(j)
    \/ RecCreateRecording(j)
    \/ RecSetCompleted(j)
    \/ RecNotifyCompleted(j)
    \/ RecSetFailed(j)

(***************************************************************************)
(* Job store: the "encoding" queue.                                        *)
(***************************************************************************)
\* POST /jobs/encodings/start: the recording exists, a new job is added.
StartEncodingJob(id) ==
    /\ RecordingById(id) # {}
    /\ Cardinality(Enqueued(encJobs)) < MaxEncJobs
    /\ LET j == Cardinality(Enqueued(encJobs)) + 1 IN
        encJobs' = [encJobs EXCEPT ![j] = [NoEncJob EXCEPT !.state = "waiting", !.recordingId = id]]
    /\ UNCHANGED <<meetings, recordings, recJobs>>
    /\ UNCHANGED <<hookVars, relayVars, trackerVars, handlerVars>>

\* The encoding worker takes a waiting job while fewer than `concurrency` run.
TakeEncodingJob(j) ==
    /\ encJobs[j].state = "waiting"
    /\ Cardinality(Active(encJobs)) < EncodingConcurrency
    /\ encJobs' = [encJobs EXCEPT ![j].state = "active", ![j].pc = "start"]
    /\ UNCHANGED <<meetings, recordings, recJobs>>
    /\ UNCHANGED <<hookVars, relayVars, trackerVars, handlerVars>>

\* The same, within the invocations the pipeline model explores.
LeaseEncodingJob(j) ==
    /\ encJobs[j].state = "waiting"
    /\ LeasesMade < MaxLeases
    /\ TakeEncodingJob(j)

EncJobReturned(j) ==
    [encJobs[j] EXCEPT !.state = "completed", !.pc = "idle"]

EncJobThrown(j) ==
    LET made == encJobs[j].attemptsMade + 1 IN
    [encJobs[j] EXCEPT !.state = IF made < EncodingAttempts THEN "waiting" ELSE "failed",
                       !.attemptsMade = made, !.pc = "idle",
                       !.delay = IF made < EncodingAttempts
                                 THEN BackoffDelay(EncodingBackoff.delay, made) ELSE 0]

(***************************************************************************)
(* processEncodingJob, one action per group of awaits.                     *)
(***************************************************************************)
EncAt(j, pc) == encJobs[j].state = "active" /\ encJobs[j].pc = pc

EncGoto(j, pc) == encJobs' = [encJobs EXCEPT ![j].pc = pc]

\* db.recording.update({status: "ENCODING"})
EncSetEncoding(j) ==
    /\ EncAt(j, "start")
    /\ \/ /\ RecordingUpdate(encJobs[j].recordingId, "ENCODING")
          /\ EncGoto(j, "encode")
       \/ /\ EncGoto(j, "setFailed")
          /\ UNCHANGED recordings
    /\ UNCHANGED <<meetings, recJobs>>
    /\ UNCHANGED <<hookVars, relayVars, trackerVars, handlerVars>>

\* Lines 32-108: "encoding started" webhook, download of the raw file,
\* encoder.encode(...), the check of result.success, upload of the encoded
\* file, db.recording.update({status: "ENCODED", encodedFilePath, ...}).
EncEncode(j) ==
    /\ EncAt(j, "encode")
    /\ \/ /\ RecordingUpdate(encJobs[j].recordingId, "ENCODED")
          /\ EncGoto(j, "finish")
       \/ /\ EncGoto(j, "setFailed")
          /\ UNCHANGED recordings
    /\ UNCHANGED <<meetings, recJobs>>
    /\ UNCHANGED <<hookVars, relayVars, trackerVars, handlerVars>>

\* Removal of the local files, "encoding completed" webhook,
\* job.updateProgress(100), then the processor returns.
EncFinish(j) ==
    /\ EncAt(j, "finish")
    /\ \/ encJobs' = [encJobs EXCEPT ![j] = EncJobReturned(j)]
       \/ EncGoto(j, "setFailed")
    /\ UNCHANGED <<meetings, recordings, recJobs>>
    /\ UNCHANGED <<hookVars, relayVars, trackerVars, handlerVars>>

\* catch: db.recording.update({status: "FAILED", error}), the "encoding
\* failed" webhook (its rejection is swallowed), throw error.
EncSetFailed(j) ==
    /\ EncAt(j, "setFailed")
    /\ \/ RecordingUpdate(encJobs[j].recordingId, "FAILED")
       \/ UNCHANGED recordings
    /\ encJobs' = [encJobs EXCEPT ![j] = EncJobThrown(j)]
    /\ UNCHANGED <<meetings, recJobs>>
    /\ UNCHANGED <<hookVars, relayVars, trackerVars, handlerVars>>

ProcessEncodingJob(j) ==
    \/ EncSetEncoding(j)
    \/ EncEncode(j)
    \/ EncFinish(j)
    \/ EncSetFailed(j)

(***************************************************************************)
(* The pipeline.                                                           *)
(***************************************************************************)
Next ==
    \/ \E m \in Meetings : StartRecordingJob(m)
    \/ \E j \in RecJobIds : LeaseRecordingJob(j)
    \/ \E j \in RecJobIds : ProcessRecordingJob(j)
    \/ \E id \in 1..MaxRecordings : StartEncodingJob(id)
    \/ \E j \in EncJobIds : LeaseEncodingJob(j)
    \/ \E j \in EncJobIds : ProcessEncodingJob(j)

Spec == Init /\ [][Next]_vars

(***************************************************************************)
(* Retries: one recording job and the encoding jobs of its recording, run  *)
(* through every attempt the queues allow, while DELETE /meetings/:id may  *)
(* remove the meeting under them.                                          *)
(***************************************************************************)
StartOneRecordingJob(m) ==
    /\ Enqueued(recJobs) = {}
    /\ StartRecordingJob(m)

RetryNext ==
    \/ \E m \in Meetings : StartOneRecordingJob(m)
    \/ \E j \in RecJobIds : TakeRecordingJob(j)
    \/ \E j \in RecJobIds : ProcessRecordingJob(j)
    \/ \E id \in 1..MaxRecordings : StartEncodingJob(id)
    \/ \E j \in EncJobIds : TakeEncodingJob(j)
    \/ \E j \in EncJobIds : ProcessEncodingJob(j)
    \/ \E m \in Meetings : DeleteMeeting(m)

Retry == Init /\ [][RetryNext]_vars

(***************************************************************************)
(* Webhook delivery: WebhookService.trigger and, per webhook, the chain of *)
(* deliverWebhook calls.  One event is published over a run.  A database   *)
(* call of the chain either resolves or rejects; the POST ends in a 2xx    *)
(* response, another response, or an error (refused, reset, timed out).    *)
(***************************************************************************)
WebhookEvents == {"MEETING_COMPLETED", "RECORDING_READY"}

Responses == {"ok", "non2xx", "error"}

\* createHmac("sha256", key).update(message).digest("hex"): the digest is
\* determined by, and stands for, the key and the message.
HmacSha256(key, message) == <<"hmac-sha256", key, message>>

generateSignature(payload, secret) == HmacSha256(secret, payload)

\* JSON.stringify(payload): the text of the three members in their order.
Stringify(payload) == <<"event", payload.event, "timestamp", payload.timestamp, "data", payload.data>>

\* {...base, ...custom}: a name of `custom` replaces the same name of `base`.
Spread(base, custom) ==
    [n \in DOMAIN base \cup DOMAIN custom |->
        IF n \in DOMAIN custom THEN custom[n] ELSE base[n]]

SignatureHeader == "X-Webhook-Signature"

\* The headers and the body deliverWebhook posts.
Request(webhook, payload) ==
    LET payloadJson == Stringify(payload)
        signature == generateSignature(payloadJson, webhook.secret)
        base == [n \in {"Content-Type", SignatureHeader, "X-Webhook-Event",
                        "X-Webhook-Timestamp", "X-Webhook-Id"} |->
                    CASE n = "Content-Type" -> "application/json"
                      [] n = SignatureHeader -> <<"sha256=", signature>>
                      [] n = "X-Webhook-Event" -> payload.event
                      [] n = "X-Webhook-Timestamp" -> payload.timestamp
                      [] n = "X-Webhook-Id" -> webhook.id]
    IN [headers |-> Spread(base, webhook.headers), body |-> payloadJson]

CallAt(w, pc) == calls[w].pc = pc

DbMayReject == dbFaults < MaxDbFaults

DbRejects == dbFaults' = dbFaults + 1

\* Mutant: every row is written as a first attempt.
DeliveryRowFirstAttempt(attempt) == [attempt |-> 1, success |-> "unset"]

\* db.webhookDelivery.create({webhookId, event, payload, attempt})
DeliveryRow(attempt) == [attempt |-> attempt, success |-> "unset"]

\* db.webhookDelivery.update({where: {id: delivery.id}, data: {success, ...}})
DeliveryUpdate(w, id, success) ==
    deliveries' = [deliveries EXCEPT ![w][id].success = success]

\* Mutant: the chain throws once the retries are used up.
GiveUpThrows(call) == [call EXCEPT !.pc = "rejected"]

\* return {success: false, ...}
GiveUp(call) == [call EXCEPT !.pc = "done", !.result = "failure"]

\* "Retry if attempts remaining": wait 2^attempt seconds and call again, or
\* return the failure.
AfterFailure(w, call) ==
    IF call.attempt < webhooks[w].retryCount
    THEN [call EXCEPT !.pc = "backoff"]
    ELSE GiveUp(call)

\* Mutant: the webhooks count their attempts on one counter.
NextAttemptShared(w) ==
    1 + CHOOSE n \in {calls[x].attempt : x \in WebhookIds} :
            \A x \in WebhookIds : calls[x].attempt <= n

\* deliverWebhook(webhook, payload, attempt + 1)
NextAttempt(w) == calls[w].attempt + 1

\* trigger up to Promise.all: db.webhook.findMany, the payload, and the
\* first deliverWebhook call per webhook (attempt = 1), each run up to its
\* first await.
TriggerStart(event) ==
    /\ trigger.pc = "idle"
    /\ \/ /\ trigger' = [pc |-> "delivering",
                         payload |-> [event |-> event, timestamp |-> "now", data |-> <<"data", event>>]]
          /\ calls' = [w \in WebhookIds |-> [NoCall EXCEPT !.pc = "create", !.attempt = 1]]
          /\ UNCHANGED dbFaults
       \/ /\ DbMayReject
          /\ DbRejects
          /\ trigger' = [trigger EXCEPT !.pc = "rejected"]
          /\ UNCHANGED calls
    /\ UNCHANGED <<webhooks, deliveries>>
    /\ UNCHANGED <<pipelineVars, relayVars, trackerVars, handlerVars>>

\* try: delivery = await db.webhookDelivery.create(...).  A rejection enters
\* the catch block with delivery still null.
DeliverCreate(w) ==
    /\ CallAt(w, "create")
    /\ \/ /\ deliveries' = [deliveries EXCEPT ![w] = Append(@, DeliveryRow(calls[w].attempt))]
          /\ calls' = [calls EXCEPT ![w].pc = "post", ![w].delivery = Len(deliveries[w]) + 1]
          /\ UNCHANGED dbFaults
       \/ /\ DbMayReject
          /\ DbRejects
          /\ calls' = [calls EXCEPT ![w] = AfterFailure(w, [calls[w] EXCEPT !.faulted = TRUE])]
          /\ UNCHANGED deliveries
    /\ UNCHANGED <<webhooks, trigger>>
    /\ UNCHANGED <<pipelineVars, relayVars, trackerVars, handlerVars>>

\* await fetch(webhook.url, {method: "POST", headers, body: payloadJson,
\* signal}) and response.text(); an error enters the catch block.
DeliverPost(w) ==
    /\ CallAt(w, "post")
    /\ \E response \in Responses :
        calls' = [calls EXCEPT ![w] =
            [calls[w] EXCEPT !.pc = IF response = "error" THEN "catch" ELSE "update",
                             !.response = response,
                             !.posts = @ + 1,
                             !.oks = @ + (IF response = "ok" THEN 1 ELSE 0),
                             !.request = Request(webhooks[w], trigger.payload)]]
    /\ UNCHANGED <<webhooks, trigger, deliveries, dbFaults>>
    /\ UNCHANGED <<pipelineVars, relayVars, trackerVars, handlerVars>>

\* await db.webhookDelivery.update({success: response.ok, ...}); then the
\* success result, or the retry decision for a non-2xx response.
DeliverUpdate(w) ==
    /\ CallAt(w, "update")
    /\ \/ /\ DeliveryUpdate(w, calls[w].delivery,
                            IF calls[w].response = "ok" THEN "true" ELSE "false")
          /\ calls' = [calls EXCEPT ![w] =
                IF calls[w].response = "ok"
                THEN [calls[w] EXCEPT !.pc = "done", !.result = "success"]
                ELSE AfterFailure(w, calls[w])]
          /\ UNCHANGED dbFaults
       \/ /\ DbMayReject
          /\ DbRejects
          /\ calls' = [calls EXCEPT ![w].pc = "catch", ![w].faulted = TRUE]
          /\ UNCHANGED deliveries
    /\ UNCHANGED <<webhooks, trigger>>
    /\ UNCHANGED <<pipelineVars, relayVars, trackerVars, handlerVars>>

\* catch, with a delivery row: await db.webhookDelivery.update({error,
\* success: false}), then the retry decision.  The update is not guarded:
\* its rejection is the rejection of deliverWebhook.
DeliverCatch(w) ==
    /\ CallAt(w, "catch")
    /\ \/ /\ DeliveryUpdate(w, calls[w].delivery, "false")
          /\ calls' = [calls EXCEPT ![w] = AfterFailure(w, calls[w])]
          /\ UNCHANGED dbFaults
       \/ /\ DbMayReject
          /\ DbRejects
          /\ calls' = [calls EXCEPT ![w].pc = "rejected", ![w].faulted = TRUE]
          /\ UNCHANGED deliveries
    /\ UNCHANGED <<webhooks, trigger>>
    /\ UNCHANGED <<pipelineVars, relayVars, trackerVars, handlerVars>>

\* await new Promise(resolve => setTimeout(resolve, backoffMs)) is over:
\* return deliverWebhook(webhook, payload, attempt + 1).
DeliverBackoff(w) ==
    /\ CallAt(w, "backoff")
    /\ calls' = [calls EXCEPT ![w].pc = "create", ![w].attempt = NextAttempt(w),
                              ![w].delivery = 0, ![w].response = "none"]
    /\ UNCHANGED <<webhooks, trigger, deliveries, dbFaults>>
    /\ UNCHANGED <<pipelineVars, relayVars, trackerVars, handlerVars>>

DeliverWebhook(w) ==
    \/ DeliverCreate(w)
    \/ DeliverPost(w)
    \/ DeliverUpdate(w)
    \/ DeliverCatch(w)
    \/ DeliverBackoff(w)

\* await Promise.all(...): rejects with the first chain that rejects,
\* resolves with the results once every chain has returned one.
TriggerSettle ==
    /\ trigger.pc = "delivering"
    /\ \/ /\ \E w \in WebhookIds : CallAt(w, "rejected")
          /\ trigger' = [trigger EXCEPT !.pc = "rejected"]
       \/ /\ \A w \in WebhookIds : CallAt(w, "done")
          /\ trigger' = [trigger EXCEPT !.pc = "resolved"]
    /\ UNCHANGED <<webhooks, calls, deliveries, dbFaults>>
    /\ UNCHANGED <<pipelineVars, relayVars, trackerVars, handlerVars>>

DeliveryInit ==
    /\ PipelineIdle
    /\ webhooks \in {f \in [WebhookIds -> {Webhook(w, n, h) : w \in WebhookIds, n \in RetryCounts, h \in CustomHeaders}] :
                        \A w \in WebhookIds : f[w].id = w}
    /\ HooksIdle
    /\ NoRelay
    /\ NoTracker
    /\ NoHandlers

DeliveryNext ==
    \/ \E event \in WebhookEvents : TriggerStart(event)
    \/ \E w \in WebhookIds : DeliverWebhook(w)
    \/ TriggerSettle

Delivery == DeliveryInit /\ [][DeliveryNext]_vars

(***************************************************************************)
(* Chunk relay: while the recorder writes the output file, an interval     *)
(* callback of processRecordingJob sends the new bytes of the file to the  *)
(* active stream Destination through StreamingService.streamChunk; after   *)
(* the recorder returned, the handler flushes a final chunk and calls      *)
(* notifyStreamEnd.  One capture and one Destination are modelled; the     *)
(* Destination's transport is HTTP_POST or WEBSOCKET (S3_MULTIPART goes    *)
(* through the webhook service).  A stream config always has a secret:     *)
(* the route that creates it generates one when none is given, and no      *)
(* route removes it.                                                       *)
(***************************************************************************)
StreamTypes == {"HTTP_POST", "WEBSOCKET"}

\* Callers of streamChunk: the interval callbacks, and 0 for the handler's
\* final chunk.
Ticks == 1..MaxTicks
Callers == 0..MaxTicks

Secret == "secret"

NoStream ==
    [pc |-> "idle", chunkIndex |-> 0, from |-> 0, size |-> 0, isFinal |-> FALSE, sock |-> 0]

RelayInit ==
    /\ PipelineIdle
    /\ NoHooks
    /\ NoTracker
    /\ NoHandlers
    /\ relay \in {[pc |-> "recording", type |-> t, chunkIndex |-> 0,
                   lastStreamedSize |-> 0, size |-> 0, threw |-> 0] : t \in StreamTypes}
    /\ streams = [c \in Callers |-> NoStream]
    /\ sockets = <<>>
    /\ wsConnections = 0
    /\ delivered = <<>>

\* The recorder appends to the output file while recorder.record runs.
RecorderWrites ==
    /\ relay.pc = "recording"
    /\ relay.size < MaxBytes
    /\ relay' = [relay EXCEPT !.size = @ + 1]
    /\ UNCHANGED <<streams, sockets, wsConnections, delivered>>
    /\ UNCHANGED <<pipelineVars, hookVars, trackerVars, handlerVars>>

\* The StreamChunk built from slice(lastStreamedSize, stats.size), the bytes
\* from `from` up to `size`; chunkIndex++ numbers it before it is handed to
\* streamChunk.
Chunk(isFinal) ==
    [pc |-> "configs", chunkIndex |-> relay.chunkIndex,
     from |-> relay.lastStreamedSize, size |-> relay.size,
     isFinal |-> isFinal, sock |-> 0]

\* One run of the interval callback up to its call of streamChunk.  A
\* callback that finds no new bytes does nothing.  Nothing keeps a callback
\* from starting while an earlier one still awaits streamChunk.
TickStart(c) ==
    /\ relay.pc = "recording"
    /\ streams[c].pc = "idle"
    /\ \A d \in Ticks : d < c => streams[d].pc # "idle"
    /\ relay.size > relay.lastStreamedSize
    /\ streams' = [streams EXCEPT ![c] = Chunk(FALSE)]
    /\ relay' = [relay EXCEPT !.chunkIndex = @ + 1]
    /\ UNCHANGED <<sockets, wsConnections, delivered>>
    /\ UNCHANGED <<pipelineVars, hookVars, trackerVars, handlerVars>>

\* What follows streamChunk in its caller.  The interval callback records
\* the size it sent whatever the delivery results were, and skips that when
\* streamChunk rejected; the handler goes on to notifyStreamEnd either way.
\* relay.threw counts the sends that threw.
StreamChunkSettled(c, result) ==
    /\ streams' = [streams EXCEPT ![c] = [NoStream EXCEPT !.pc = "done"]]
    /\ relay' = [relay EXCEPT
                    !.pc = IF c = 0 THEN "streamEnd" ELSE @,
                    !.lastStreamedSize = IF c # 0 /\ result # "rejected" THEN streams[c].size ELSE @,
                    !.threw = IF result = "sendThrew" THEN @ + 1 ELSE @]

ChunkFrame(c) ==
    [type |-> "chunk", chunkIndex |-> streams[c].chunkIndex, isFinal |-> streams[c].isFinal]

AuthFrame == [type |-> "auth", secret |-> Secret]

StreamEndFrame == [type |-> "stream_end"]

Received(c) == [chunkIndex |-> streams[c].chunkIndex, isFinal |-> streams[c].isFinal]

\* SendChunk with a catch block that leaves the map alone.
SendChunkKeepsEntry(c, s, socks, conns) ==
    \/ /\ sockets' = [socks EXCEPT ![s].frames = Append(@, ChunkFrame(c))]
       /\ wsConnections' = conns
       /\ delivered' = Append(delivered, Received(c))
       /\ StreamChunkSettled(c, "success")
    \/ /\ sockets' = socks
       /\ wsConnections' = conns
       /\ delivered' = delivered
       /\ StreamChunkSettled(c, "sendThrew")

\* ws.send of the chunk frame on socket s and the return of
\* streamViaWebSocket: the frame goes out, or send throws and the catch
\* block deletes the Destination's entry of the map.
SendChunk(c, s, socks, conns) ==
    \/ /\ sockets' = [socks EXCEPT ![s].frames = Append(@, ChunkFrame(c))]
       /\ wsConnections' = conns
       /\ delivered' = Append(delivered, Received(c))
       /\ StreamChunkSettled(c, "success")
    \/ /\ sockets' = socks
       /\ wsConnections' = 0
       /\ delivered' = delivered
       /\ StreamChunkSettled(c, "sendThrew")

\* streamViaWebSocket up to its first await: the entry of the map is used
\* when its socket is open, otherwise a new socket is created and awaited.
\* A socket remembers how many sends had thrown when it was created.
StreamViaWebSocket(c) ==
    IF wsConnections # 0 /\ sockets[wsConnections].state = "open"
    THEN SendChunk(c, wsConnections, sockets, wsConnections)
    ELSE /\ sockets' = Append(sockets, [state |-> "connecting", frames |-> <<>>,
                                       after |-> relay.threw])
         /\ streams' = [streams EXCEPT ![c].pc = "open", ![c].sock = Len(sockets) + 1]
         /\ UNCHANGED <<relay, wsConnections, delivered>>

\* streamChunk: getActiveConfigs resolves with the Destination and the
\* transport is entered, or it rejects and so does streamChunk.
StreamChunk(c) ==
    /\ streams[c].pc = "configs"
    /\ \/ /\ relay.type = "HTTP_POST"
          /\ streams' = [streams EXCEPT ![c].pc = "post"]
          /\ UNCHANGED <<relay, sockets, wsConnections, delivered>>
       \/ /\ relay.type = "WEBSOCKET"
          /\ StreamViaWebSocket(c)
       \/ /\ StreamChunkSettled(c, "rejected")
          /\ UNCHANGED <<sockets, wsConnections, delivered>>
    /\ UNCHANGED <<pipelineVars, hookVars, trackerVars, handlerVars>>

\* streamViaHttpPost: the fetch settles; the Destination has the chunk when
\* it answered 2xx.  A failure is a result, never a rejection.
StreamViaHttpPost(c) ==
    /\ streams[c].pc = "post"
    /\ \E response \in Responses :
          IF response = "ok"
          THEN /\ delivered' = Append(delivered, Received(c))
               /\ StreamChunkSettled(c, "success")
          ELSE /\ delivered' = delivered
               /\ StreamChunkSettled(c, "failed")
    /\ UNCHANGED <<sockets, wsConnections>>
    /\ UNCHANGED <<pipelineVars, hookVars, trackerVars, handlerVars>>

\* The awaited open of a new socket settles.  Opened: the auth frame is
\* sent, the socket is stored in the map and the chunk is sent.  Failed
\* (onerror, or the 10 s timeout): the catch block deletes the entry.
SocketOpened(c) ==
    /\ streams[c].pc = "open"
    /\ LET s == streams[c].sock
       IN \/ SendChunk(c, s, [sockets EXCEPT ![s].state = "open",
                                             ![s].frames = Append(@, AuthFrame)], s)
          \/ /\ sockets' = [sockets EXCEPT ![s].state = "closed"]
             /\ wsConnections' = 0
             /\ delivered' = delivered
             /\ StreamChunkSettled(c, "openFailed")
    /\ UNCHANGED <<pipelineVars, hookVars, trackerVars, handlerVars>>

\* The peer closes an open socket.
SocketClosed(s) ==
    /\ sockets[s].state = "open"
    /\ sockets' = [sockets EXCEPT ![s].state = "closed"]
    /\ UNCHANGED <<relay, streams, wsConnections, delivered>>
    /\ UNCHANGED <<pipelineVars, hookVars, trackerVars, handlerVars>>

\* recorder.record returns: the interval is cleared, which stops further
\* callbacks and leaves a running one alone; an unsuccessful result throws.
RecorderReturns ==
    /\ relay.pc = "recording"
    /\ \E success \in BOOLEAN :
          relay' = [relay EXCEPT !.pc = IF success THEN "final" ELSE "catch"]
    /\ UNCHANGED <<streams, sockets, wsConnections, delivered>>
    /\ UNCHANGED <<pipelineVars, hookVars, trackerVars, handlerVars>>

\* The final chunk, sent only if bytes past lastStreamedSize remain.
FinalChunk ==
    /\ relay.pc = "final"
    /\ IF relay.size > relay.lastStreamedSize
       THEN /\ streams' = [streams EXCEPT ![0] = Chunk(TRUE)]
            /\ relay' = [relay EXCEPT !.pc = "flush", !.chunkIndex = @ + 1]
       ELSE /\ relay' = [relay EXCEPT !.pc = "streamEnd"]
            /\ UNCHANGED streams
    /\ UNCHANGED <<sockets, wsConnections, delivered>>
    /\ UNCHANGED <<pipelineVars, hookVars, trackerVars, handlerVars>>

\* NotifyStreamEnd without ws.close() and without the delete.
NotifyStreamEndLeavesOpen ==
    /\ relay.pc \in {"streamEnd", "catch"}
    /\ \/ /\ relay' = [relay EXCEPT !.pc = IF relay.pc = "catch" THEN "failed" ELSE "done"]
          /\ IF wsConnections # 0 /\ sockets[wsConnections].state = "open"
             THEN /\ sockets' = [sockets EXCEPT ![wsConnections].frames = Append(@, StreamEndFrame)]
                  /\ UNCHANGED wsConnections
             ELSE UNCHANGED <<sockets, wsConnections>>
       \/ /\ relay' = [relay EXCEPT !.pc = IF relay.pc = "catch" THEN "failed" ELSE "catch"]
          /\ UNCHANGED <<sockets, wsConnections>>
    /\ UNCHANGED <<streams, delivered>>
    /\ UNCHANGED <<pipelineVars, hookVars, trackerVars, handlerVars>>

\* notifyStreamEnd, from the handler's body or from its catch block: an
\* open socket of the map gets the stream_end frame, is closed and leaves
\* the map.  A rejection in the body throws into the catch block, which
\* swallows the rejection of its own call.
NotifyStreamEnd ==
    /\ relay.pc \in {"streamEnd", "catch"}
    /\ \/ /\ relay' = [relay EXCEPT !.pc = IF relay.pc = "catch" THEN "failed" ELSE "done"]
          /\ IF wsConnections # 0 /\ sockets[wsConnections].state = "open"
             THEN /\ sockets' = [sockets EXCEPT ![wsConnections].frames = Append(@, StreamEndFrame),
                                                ![wsConnections].state = "closed"]
                  /\ wsConnections' = 0
             ELSE UNCHANGED <<sockets, wsConnections>>
       \/ /\ relay' = [relay EXCEPT !.pc = IF relay.pc = "catch" THEN "failed" ELSE "catch"]
          /\ UNCHANGED <<sockets, wsConnections>>
    /\ UNCHANGED <<streams, delivered>>
    /\ UNCHANGED <<pipelineVars, hookVars, trackerVars, handlerVars>>

RelayNext ==
    \/ RecorderWrites
    \/ \E c \in Ticks : TickStart(c)
    \/ \E c \in Callers : StreamChunk(c)
    \/ \E c \in Callers : StreamViaHttpPost(c)
    \/ \E c \in Callers : SocketOpened(c)
    \/ \E s \in DOMAIN sockets : SocketClosed(s)
    \/ RecorderReturns
    \/ FinalChunk
    \/ NotifyStreamEnd

Relay == RelayInit /\ [][RelayNext]_vars

(***************************************************************************)
(* Two captures of one organization: the relay above is the capture of one *)
(* meeting, and the Destination is an organization default (meetingId      *)
(* null), which getActiveConfigs returns for every meeting of the          *)
(* organization.  The worker runs up to three captures at once, all with   *)
(* the one streamingService and its wsConnections map, keyed by the        *)
(* Destination's id.  Of the other capture, the end of its stream is       *)
(* modelled.                                                               *)
(***************************************************************************)
\* The stream_end frame notifyStreamEnd sends for the other meeting.
OtherStreamEndFrame == [type |-> "stream_end", meetingId |-> "other"]

\* notifyStreamEnd of the other meeting: the Destination is among
\* the configs, and the open socket stored under its id gets the frame, is
\* closed and leaves the map.
OtherNotifyStreamEnd ==
    /\ wsConnections # 0
    /\ sockets[wsConnections].state = "open"
    /\ sockets' = [sockets EXCEPT ![wsConnections].frames = Append(@, OtherStreamEndFrame),
                                  ![wsConnections].state = "closed"]
    /\ wsConnections' = 0
    /\ UNCHANGED <<relay, streams, delivered>>
    /\ UNCHANGED <<pipelineVars, hookVars, trackerVars, handlerVars>>

SharingNext ==
    \/ RelayNext
    \/ OtherNotifyStreamEnd

Sharing == RelayInit /\ [][SharingNext]_vars

(***************************************************************************)
(* Participant tracker: ParticipantTracker polls the roster of the page    *)
(* at an interval while the recorder runs, keeps a map of participants and *)
(* appends joined / left / muted / unmuted events to its log, passing them *)
(* to the onUpdate callback.  startTracking awaits a first poll and then   *)
(* sets the interval; stopTracking clears it and marks who is still        *)
(* present as left.  The Teams and Slack polls are the same at this level  *)
(* ("teams"); the YouTube poll reads chat authors.  One flag (isMuted)     *)
(* stands for the compared flags, a snapshot holds the elements whose name *)
(* could be read, and the callback is set.                                 *)
(***************************************************************************)
Platforms == {"teams", "youtube"}
ParticipantIds == {"a", "b"}
Polls == 1..MaxPolls
Never == -1      \* leftAt of a participant that was not marked left

NoParticipant == [known |-> FALSE, isMuted |-> FALSE, joinedAt |-> 0, leftAt |-> Never]

NoPoll == [pc |-> "idle", snapshot |-> <<>>, i |-> 0, now |-> 0]

\* The elements a poll can read for one participant: Teams reads the mute
\* icon, the YouTube poll sets no flag.
Elements(platform, id) ==
    {[id |-> id, isMuted |-> m] : m \in IF platform = "youtube" THEN {FALSE} ELSE BOOLEAN}

\* The rosters page.$$ can resolve with, in document order.
Snapshots(platform) ==
    {<<>>}
    \cup {<<e>> : e \in Elements(platform, "a") \cup Elements(platform, "b")}
    \cup {<<e, f>> : e \in Elements(platform, "a"), f \in Elements(platform, "b")}

TrackerInit ==
    /\ PipelineIdle
    /\ NoHooks
    /\ NoRelay
    /\ NoHandlers
    /\ tracker \in {[platform |-> p, pollInterval |-> "null", stopped |-> FALSE,
                     participants |-> [id \in ParticipantIds |-> NoParticipant]] : p \in Platforms}
    /\ polls = [p \in Polls |-> NoPoll]
    /\ events = <<>>
    /\ forwarded = <<>>
    /\ clock = 0

\* The tracker's mutable state as one value: st.participants, st.events and
\* st.forwarded.
Event(type, id, timestamp) == [type |-> type, id |-> id, timestamp |-> timestamp]

Emit(st, event) ==
    [st EXCEPT !.events = Append(@, event), !.forwarded = Append(@, event)]

\* updateParticipant that takes a participant marked left for a new one.
updateParticipantRejoins(st, element) ==
    LET existing == st.participants[element.id]
        now == clock
    IN IF ~existing.known \/ existing.leftAt # Never
       THEN Emit([st EXCEPT !.participants[element.id] =
                        [known |-> TRUE, isMuted |-> element.isMuted,
                         joinedAt |-> now, leftAt |-> Never]],
                 Event("joined", element.id, now))
       ELSE LET changed == IF existing.isMuted # element.isMuted
                           THEN Emit(st, Event(IF element.isMuted THEN "muted" ELSE "unmuted",
                                               element.id, now))
                           ELSE st
            IN [changed EXCEPT !.participants[element.id].isMuted = element.isMuted]

\* updateParticipant: a participant not in the map is inserted and joined
\* is emitted; for a known one a changed flag is emitted and the record is
\* replaced keeping joinedAt (and leftAt, which the poll's object lacks).
\* The timestamp is read from the clock here, not taken from the poll.
updateParticipant(st, element) ==
    LET existing == st.participants[element.id]
        now == clock
    IN IF ~existing.known
       THEN Emit([st EXCEPT !.participants[element.id] =
                        [known |-> TRUE, isMuted |-> element.isMuted,
                         joinedAt |-> now, leftAt |-> Never]],
                 Event("joined", element.id, now))
       ELSE LET changed == IF existing.isMuted # element.isMuted
                           THEN Emit(st, Event(IF element.isMuted THEN "muted" ELSE "unmuted",
                                               element.id, now))
                           ELSE st
            IN [changed EXCEPT !.participants[element.id].isMuted = element.isMuted]

\* The keys of the participants map in insertion order.
RECURSIVE Inserted(_)
Inserted(log) ==
    IF log = <<>> THEN <<>>
    ELSE IF Head(log).type = "joined"
         THEN <<Head(log).id>> \o Inserted(Tail(log))
         ELSE Inserted(Tail(log))

\* checkForLeftParticipants over the keys in order: a participant that is
\* not in currentIds and has no leftAt is marked left at the poll's
\* timestamp, and left is emitted.
RECURSIVE checkForLeftParticipants(_, _, _, _)
checkForLeftParticipants(st, ids, currentIds, timestamp) ==
    IF ids = <<>> THEN st
    ELSE LET id == Head(ids)
             next == IF id \notin currentIds /\ st.participants[id].leftAt = Never
                     THEN Emit([st EXCEPT !.participants[id].leftAt = timestamp],
                               Event("left", id, timestamp))
                     ELSE st
         IN checkForLeftParticipants(next, Tail(ids), currentIds, timestamp)

\* The loop of stopTracking: every participant without leftAt is marked
\* left at the stop time; the event is pushed to the log only.
RECURSIVE MarkRemaining(_, _, _)
MarkRemaining(st, ids, now) ==
    IF ids = <<>> THEN st
    ELSE LET id == Head(ids)
             next == IF st.participants[id].leftAt = Never
                     THEN [st EXCEPT !.participants[id].leftAt = now,
                                     !.events = Append(@, Event("left", id, now))]
                     ELSE st
         IN MarkRemaining(next, Tail(ids), now)

TrackerState == [participants |-> tracker.participants, events |-> events, forwarded |-> forwarded]

CurrentIds(snapshot) == {snapshot[k].id : k \in 1..Len(snapshot)}

\* The end of a poll without the check for participants who left.
PollEndWithoutCheck(st, snapshot, now) == st

\* The end of a poll that went through its snapshot: Teams checks for
\* participants who left; the YouTube poll does not, chat being transient.
PollEnd(st, snapshot, now) ==
    IF tracker.platform = "youtube" THEN st
    ELSE checkForLeftParticipants(st, Inserted(st.events), CurrentIds(snapshot), now)

\* The tracker's state after a step of poll p.  The first poll is awaited
\* by startTracking, which sets the interval when it has settled.
Settle(st, p, pc) ==
    /\ tracker' = [tracker EXCEPT
                      !.participants = st.participants,
                      !.pollInterval = IF p = 1 /\ pc \in {"done", "aborted"} THEN "set" ELSE @]
    /\ events' = st.events
    /\ forwarded' = st.forwarded

\* pollParticipants up to the roster: the first poll of startTracking, or a
\* run of the interval callback.  The interval is taken to be longer than a
\* poll: a poll starts when the one before it has settled.
\* The page query resolves with a snapshot, and the poll reads the clock;
\* or it rejects, and pollParticipants swallows the error.
PollStart(p) ==
    /\ polls[p].pc = "idle"
    /\ IF p = 1 THEN tracker.pollInterval = "null" /\ ~tracker.stopped
       ELSE tracker.pollInterval = "set" /\ polls[p - 1].pc \in {"done", "aborted"}
    /\ \/ \E snapshot \in Snapshots(tracker.platform) :
             IF snapshot = <<>>
             THEN /\ polls' = [polls EXCEPT ![p] = [NoPoll EXCEPT !.pc = "done"]]
                  /\ Settle(PollEnd(TrackerState, snapshot, clock), p, "done")
             ELSE /\ polls' = [polls EXCEPT ![p] = [pc |-> "run", snapshot |-> snapshot,
                                                    i |-> 1, now |-> clock]]
                  /\ Settle(TrackerState, p, "run")
       \/ /\ polls' = [polls EXCEPT ![p].pc = "aborted"]
          /\ Settle(TrackerState, p, "aborted")
    /\ UNCHANGED clock
    /\ UNCHANGED <<pipelineVars, hookVars, relayVars, handlerVars>>

\* One turn of the poll's loop: the awaited reads of the element settle and
\* updateParticipant runs (the YouTube poll skips an author it already
\* tracks); after the last element the poll ends.  A read of the Teams poll
\* that rejects ends the poll at once.
PollElement(p) ==
    /\ polls[p].pc = "run"
    /\ LET poll == polls[p]
           element == poll.snapshot[poll.i]
           updated == IF tracker.platform = "youtube" /\ tracker.participants[element.id].known
                      THEN TrackerState
                      ELSE updateParticipant(TrackerState, element)
       IN \/ IF poll.i < Len(poll.snapshot)
             THEN /\ polls' = [polls EXCEPT ![p].i = @ + 1]
                  /\ Settle(updated, p, "run")
             ELSE /\ polls' = [polls EXCEPT ![p] = [NoPoll EXCEPT !.pc = "done"]]
                  /\ Settle(PollEnd(updated, poll.snapshot, poll.now), p, "done")
          \/ /\ tracker.platform = "teams"
             /\ polls' = [polls EXCEPT ![p] = [NoPoll EXCEPT !.pc = "aborted"]]
             /\ Settle(TrackerState, p, "aborted")
    /\ UNCHANGED clock
    /\ UNCHANGED <<pipelineVars, hookVars, relayVars, handlerVars>>

\* stopTracking, called by the recorder after startTracking has resolved:
\* the interval is cleared, which leaves a running poll alone.
stopTracking ==
    /\ tracker.pollInterval = "set"
    /\ LET st == MarkRemaining(TrackerState, Inserted(events), clock)
       IN /\ tracker' = [tracker EXCEPT !.pollInterval = "null", !.stopped = TRUE,
                                        !.participants = st.participants]
          /\ events' = st.events
          /\ forwarded' = st.forwarded
    /\ UNCHANGED <<polls, clock>>
    /\ UNCHANGED <<pipelineVars, hookVars, relayVars, handlerVars>>

\* Time passes during a poll (between polls it changes nothing a poll or
\* the stop compares).
ClockAdvances ==
    /\ clock < MaxClock
    /\ \E p \in Polls : polls[p].pc = "run"
    /\ clock' = clock + 1
    /\ UNCHANGED <<tracker, polls, events, forwarded>>
    /\ UNCHANGED <<pipelineVars, hookVars, relayVars, handlerVars>>

TrackerNext ==
    \/ \E p \in Polls : PollStart(p)
    \/ \E p \in Polls : PollElement(p)
    \/ stopTracking
    \/ ClockAdvances

Tracker == TrackerInit /\ [][TrackerNext]_vars

(***************************************************************************)
(* One transcode job in detail: processEncodingJob await by await, with    *)
(* the files of ./temp, the fields the handler writes to the recording     *)
(* row and the error its catch block holds.  The job is retried as the     *)
(* "encoding" queue retries it.  Every awaited call of a store may reject; *)
(* encoder.encode never rejects, it resolves with success or with an       *)
(* error text.                                                             *)
(***************************************************************************)
\* The rejection of an awaited call, as the text the catch block sees.
Rejected == "rejected"

\* The error texts encoder.encode resolves with: ffmpeg did not start,
\* ffmpeg exited with a non-zero code.
EncoderErrors == {"Failed to start FFmpeg", "FFmpeg exited with code 1"}

\* `./temp/${recordingId}-${timestamp}-raw.webm`
localRawPath(recordingId, timestamp) == <<"./temp", recordingId, timestamp, "raw.webm">>

\* `./temp/${recordingId}-${timestamp}-encoded.${outputFormat}`
localEncodedPath(recordingId, timestamp) == <<"./temp", recordingId, timestamp, "encoded">>

\* `encoded/${organizationId}/${recordingId}-${timestamp}.${outputFormat}`
encodedMinioKey(recordingId, timestamp) == <<"encoded", recordingId, timestamp>>

\* Date.now() of an invocation: later invocations of the job read later times.
DateNow(j) == encJobs[j].attemptsMade + 1

\* A recording row with the fields processEncodingJob writes.
RawRecording(id, m) ==
    [id |-> id, meetingId |-> m, status |-> "RAW",
     encodedFilePath |-> "null", encodedFileSize |-> 0, error |-> "null"]

TranscodeInit ==
    /\ meetings = [m \in Meetings |-> "COMPLETED"]
    /\ recordings = {RawRecording(1, 1)}
    /\ recJobs = [j \in RecJobIds |-> NoRecJob]
    /\ encJobs = [j \in EncJobIds |->
                    IF j = 1 THEN [NoEncJob EXCEPT !.state = "waiting", !.recordingId = 1]
                    ELSE NoEncJob]
    /\ NoHooks
    /\ NoRelay
    /\ NoTracker
    /\ NoHandlers

\* db.recording.update({where: {id}, data}) for the data of the ENCODED update.
RecordingSetEncoded(id, key, size) ==
    /\ RecordingById(id) # {}
    /\ recordings' = {IF r.id = id
                      THEN [r EXCEPT !.status = "ENCODED", !.encodedFilePath = key,
                                     !.encodedFileSize = size]
                      ELSE r : r \in recordings}

\* The same for the data of the FAILED update.
RecordingSetFailed(id, error) ==
    /\ RecordingById(id) # {}
    /\ recordings' = {IF r.id = id
                      THEN [r EXCEPT !.status = "FAILED", !.error = error]
                      ELSE r : r \in recordings}

\* An error thrown in the try block: the catch block holds it.  `t` is the
\* invocation's state as the try block left it.
TranscodeThrow(j, t, error) ==
    /\ transcode' = [t EXCEPT !.error = error]
    /\ EncGoto(j, "setFailed")

\* Line 25: db.recording.update({status: "ENCODING"}).  The invocation
\* starts with locals of its own; the files of ./temp are the disk's.
TranscodeSetEncoding(j) ==
    /\ EncAt(j, "start")
    /\ LET t == [NoTranscode EXCEPT !.temp = transcode.temp]
       IN \/ /\ RecordingUpdate(encJobs[j].recordingId, "ENCODING")
             /\ EncGoto(j, "started")
             /\ transcode' = t
          \/ /\ TranscodeThrow(j, t, Rejected)
             /\ UNCHANGED recordings
    /\ UNCHANGED <<meetings, recJobs, sessionEvents>>
    /\ UNCHANGED <<hookVars, relayVars, trackerVars>>

\* Lines 33-41: the "encoding started" webhook, Date.now(), mkdir.
TranscodeNotifyStarted(j) ==
    /\ EncAt(j, "started")
    /\ \/ /\ transcode' = [transcode EXCEPT !.timestamp = DateNow(j)]
          /\ EncGoto(j, "download")
       \/ TranscodeThrow(j, transcode, Rejected)
    /\ UNCHANGED <<meetings, recordings, recJobs, sessionEvents>>
    /\ UNCHANGED <<hookVars, relayVars, trackerVars>>

\* Lines 47-54: minioService.getFile resolves with a stream, with nothing,
\* or rejects; createWriteStream creates the local raw file and pipeline
\* fills it, or rejects with the file begun.
TranscodeDownload(j) ==
    /\ EncAt(j, "download")
    /\ LET raw == localRawPath(encJobs[j].recordingId, transcode.timestamp)
           saved == [transcode EXCEPT !.temp = @ \cup {raw}]
       IN \/ TranscodeThrow(j, transcode, "Failed to download raw file from MinIO")
          \/ TranscodeThrow(j, transcode, Rejected)
          \/ TranscodeThrow(j, saved, Rejected)
          \/ /\ transcode' = saved
             /\ EncGoto(j, "encode")
    /\ UNCHANGED <<meetings, recordings, recJobs, sessionEvents>>
    /\ UNCHANGED <<hookVars, relayVars, trackerVars>>

\* Lines 59-78: encoder.encode writes the output file and resolves with
\* success; or it resolves with an error, with or without a begun output
\* file, and the handler throws result.error.
TranscodeEncode(j) ==
    /\ EncAt(j, "encode")
    /\ LET out == localEncodedPath(encJobs[j].recordingId, transcode.timestamp)
           written == [transcode EXCEPT !.temp = @ \cup {out}]
       IN \/ /\ transcode' = written
             /\ EncGoto(j, "upload")
          \/ \E error \in EncoderErrors, t \in {transcode, written} :
                /\ error = "Failed to start FFmpeg" => t = transcode
                /\ TranscodeThrow(j, t, error)
    /\ UNCHANGED <<meetings, recordings, recJobs, sessionEvents>>
    /\ UNCHANGED <<hookVars, relayVars, trackerVars>>

\* Lines 83-91: the output is read and measured, then uploaded under
\* encodedMinioKey.
TranscodeUpload(j) ==
    /\ EncAt(j, "upload")
    /\ \E size \in 1..MaxEncodedSize :
          LET t == [transcode EXCEPT !.size = size]
          IN \/ /\ transcode' = t
                /\ EncGoto(j, "setEncoded")
             \/ TranscodeThrow(j, t, Rejected)
    /\ UNCHANGED <<meetings, recordings, recJobs, sessionEvents>>
    /\ UNCHANGED <<hookVars, relayVars, trackerVars>>

\* Line 96: db.recording.update({status: "ENCODED", encodedFilePath,
\* encodedFileSize}).
TranscodeSetEncoded(j) ==
    /\ EncAt(j, "setEncoded")
    /\ \/ /\ RecordingSetEncoded(encJobs[j].recordingId,
                                 encodedMinioKey(encJobs[j].recordingId, transcode.timestamp),
                                 transcode.size)
          /\ EncGoto(j, "cleanup")
          /\ UNCHANGED transcode
       \/ /\ TranscodeThrow(j, transcode, Rejected)
          /\ UNCHANGED recordings
    /\ UNCHANGED <<meetings, recJobs, sessionEvents>>
    /\ UNCHANGED <<hookVars, relayVars, trackerVars>>

\* Lines 111-116: unlink(localRawPath), unlink(localEncodedPath) in a try
\* block of their own: both files go, or the first unlink rejects and none
\* goes, or the second rejects and the output stays.  The results possible.
CleanUp(temp, raw, out) == {temp \ {raw, out}, temp, temp \ {raw}}

\* Lines 110-116, reached only after the ENCODED update.
TranscodeCleanup(j) ==
    /\ EncAt(j, "cleanup")
    /\ \E temp \in CleanUp(transcode.temp,
                           localRawPath(encJobs[j].recordingId, transcode.timestamp),
                           localEncodedPath(encJobs[j].recordingId, transcode.timestamp)) :
          transcode' = [transcode EXCEPT !.temp = temp]
    /\ EncGoto(j, "finish")
    /\ UNCHANGED <<meetings, recordings, recJobs, sessionEvents>>
    /\ UNCHANGED <<hookVars, relayVars, trackerVars>>

\* Lines 121-128: the "encoding completed" webhook and
\* job.updateProgress(100); then the processor returns.
TranscodeFinish(j) ==
    /\ EncAt(j, "finish")
    /\ \/ /\ encJobs' = [encJobs EXCEPT ![j] = EncJobReturned(j)]
          /\ UNCHANGED transcode
       \/ TranscodeThrow(j, transcode, Rejected)
    /\ UNCHANGED <<meetings, recordings, recJobs, sessionEvents>>
    /\ UNCHANGED <<hookVars, relayVars, trackerVars>>

\* Lines 129-155, the catch block: db.recording.update({status: "FAILED",
\* error}), the "encoding failed" webhook (its rejection is swallowed),
\* throw error.  When the update rejects, its error is thrown and the row
\* stays as it was.  No file is removed here.
TranscodeSetFailed(j) ==
    /\ EncAt(j, "setFailed")
    /\ \/ RecordingSetFailed(encJobs[j].recordingId, transcode.error)
       \/ UNCHANGED recordings
    /\ encJobs' = [encJobs EXCEPT ![j] = EncJobThrown(j)]
    /\ UNCHANGED <<meetings, recJobs, transcode, sessionEvents>>
    /\ UNCHANGED <<hookVars, relayVars, trackerVars>>

TranscodeNext ==
    \/ \E j \in EncJobIds : TakeEncodingJob(j)
    \/ \E j \in EncJobIds : TranscodeSetEncoding(j)
    \/ \E j \in EncJobIds : TranscodeNotifyStarted(j)
    \/ \E j \in EncJobIds : TranscodeDownload(j)
    \/ \E j \in EncJobIds : TranscodeEncode(j)
    \/ \E j \in EncJobIds : TranscodeUpload(j)
    \/ \E j \in EncJobIds : TranscodeSetEncoded(j)
    \/ \E j \in EncJobIds : TranscodeCleanup(j)
    \/ \E j \in EncJobIds : TranscodeFinish(j)
    \/ \E j \in EncJobIds : TranscodeSetFailed(j)

Transcode == TranscodeInit /\ [][TranscodeNext]_vars

(***************************************************************************)
(* One capture job in detail at its end: the terminal session events       *)
(* processRecordingJob publishes through WebhookService.trigger.  The      *)
(* steps up to the COMPLETED update are those of the pipeline; what        *)
(* follows it, and the catch block, are taken await by await.  A trigger   *)
(* call resolves after its deliveries, rejects before any delivery (the    *)
(* lookup of the webhooks rejected), or rejects after deliveries went out  *)
(* (a database call of one delivery chain rejected).                       *)
(***************************************************************************)
\* Outcomes of one trigger call: was the event published, did the call
\* resolve.
TriggerOutcomes ==
    {[published |-> TRUE, resolved |-> TRUE],
     [published |-> FALSE, resolved |-> FALSE],
     [published |-> TRUE, resolved |-> FALSE]}

\* The log of terminal session events after a trigger call of job j.
Published(j, event, outcome) ==
    IF outcome.published
    THEN Append(sessionEvents,
                [job |-> j, attempt |-> recJobs[j].attemptsMade + 1, event |-> event])
    ELSE sessionEvents

\* Lines 243-250: triggerMeetingCompleted.
CaptureNotifyCompleted(j) ==
    /\ RecAt(j, "notify")
    /\ \E outcome \in TriggerOutcomes :
          /\ sessionEvents' = Published(j, "MEETING_COMPLETED", outcome)
          /\ IF outcome.resolved THEN RecGoto(j, "ready") ELSE RecThrow(j, recJobs[j])
    /\ UNCHANGED <<meetings, recordings, encJobs, transcode>>
    /\ UNCHANGED <<hookVars, relayVars, trackerVars>>

\* Lines 252-262: triggerRecordingReady and job.updateProgress(100); then
\* the processor returns.
CaptureNotifyReady(j) ==
    /\ RecAt(j, "ready")
    /\ \/ recJobs' = [recJobs EXCEPT ![j] = RecJobReturned(j)]
       \/ RecThrow(j, recJobs[j])
    /\ UNCHANGED <<meetings, recordings, encJobs>>
    /\ UNCHANGED <<hookVars, relayVars, trackerVars, handlerVars>>

\* Lines 274-282, in the catch block after notifyStreamEnd:
\* db.meeting.update({status: "FAILED", error}).  When it rejects, its error
\* leaves the catch block.
CaptureSetFailed(j) ==
    /\ RecAt(j, "setFailed")
    /\ \/ /\ MeetingUpdate(recJobs[j].meetingId, "FAILED")
          /\ RecGoto(j, "notifyFailed")
       \/ /\ recJobs' = [recJobs EXCEPT ![j] = RecJobThrown(j)]
          /\ UNCHANGED meetings
    /\ UNCHANGED <<recordings, encJobs>>
    /\ UNCHANGED <<hookVars, relayVars, trackerVars, handlerVars>>

\* Lines 284-296: triggerMeetingFailed(...).catch(() => {}), throw error.
CaptureNotifyFailed(j) ==
    /\ RecAt(j, "notifyFailed")
    /\ \E outcome \in TriggerOutcomes :
          sessionEvents' = Published(j, "MEETING_FAILED", outcome)
    /\ recJobs' = [recJobs EXCEPT ![j] = RecJobThrown(j)]
    /\ UNCHANGED <<meetings, recordings, encJobs, transcode>>
    /\ UNCHANGED <<hookVars, relayVars, trackerVars>>

CaptureNext ==
    \/ \E m \in Meetings : StartOneRecordingJob(m)
    \/ \E j \in RecJobIds : TakeRecordingJob(j)
    \/ \E j \in RecJobIds : RecSetRecording(j)
    \/ \E j \in RecJobIds : RecCapture(j)
    \/ \E j \in RecJobIds : RecCreateRecording(j)
    \/ \E j \in RecJobIds : RecSetCompleted(j)
    \/ \E j \in RecJobIds : CaptureNotifyCompleted(j)
    \/ \E j \in RecJobIds : CaptureNotifyReady(j)
    \/ \E j \in RecJobIds : CaptureSetFailed(j)
    \/ \E j \in RecJobIds : CaptureNotifyFailed(j)

\* The job is added and taken as in the pipeline.
Capture == Init /\ [][CaptureNext]_vars

(***************************************************************************)
(* Properties of the capture and transcode state machines.                 *)
(***************************************************************************)
RecEnds(j) == recJobs[j].state = "active" /\ recJobs'[j].state # "active"

RecReturns(j) == RecEnds(j) /\ recJobs'[j].state = "completed"

RecThrows(j) == RecEnds(j) /\ recJobs'[j].state \in {"waiting", "failed"}

Terminal == {"COMPLETED", "FAILED"}

\* C1: a meeting's status never moves backward: PENDING, then RECORDING, then
\* COMPLETED or FAILED; a terminal status is never left, neither for
\* RECORDING nor for the other terminal status.
C1_StatusMonotonic ==
    [][\A m \in Meetings :
        /\ meetings[m] \in Terminal => meetings'[m] = meetings[m]
        /\ meetings[m] = "RECORDING" => meetings'[m] # "PENDING"]_vars

C3_EncodedImpliesCompleted ==
    \A r \in recordings : r.status = "ENCODED" => meetings[r.meetingId] = "COMPLETED"

C5_FailureLeavesNothing ==
    [][\A j \in RecJobIds :
        RecThrows(j) =>
            /\ meetings'[recJobs[j].meetingId] = "FAILED"
            /\ recJobs[j].rec = 0
            /\ encJobs' = encJobs]_vars

\* C6: an invocation that completes its meeting has enqueued exactly one
\* encoding job for the recording it created.
C6_CompletedEnqueuesEncoding ==
    [][\A j \in RecJobIds :
        RecReturns(j) =>
            Cardinality({e \in EncJobIds : /\ encJobs'[e].state # "none"
                                          /\ encJobs'[e].recordingId = recJobs[j].rec}) = 1]_vars

\* C7: when an invocation ends the meeting is not RECORDING: it is COMPLETED
\* after a normal return and FAILED (with the error text) after a throw.
C7_EndsTerminal ==
    [][\A j \in RecJobIds :
        /\ RecReturns(j) => meetings'[recJobs[j].meetingId] = "COMPLETED"
        /\ RecThrows(j) => meetings'[recJobs[j].meetingId] = "FAILED"]_vars

\* C8: an invocation whose recorder reported success with an empty or absent
\* output file creates no recording row and does not complete the meeting.
C8_EmptyOutputFails ==
    \A j \in RecJobIds :
        recJobs[j].file \in {"zero", "missing"} =>
            /\ recJobs[j].rec = 0
            /\ recJobs[j].pc \notin {"complete", "notify"}

\* About to end: only the return, or the FAILED update and the rethrow, remain.
RecEnding(j) == RecAt(j, "notify") \/ RecAt(j, "setFailed")

C10_OneInvocationPerRecord ==
    /\ \A j, k \in RecJobIds :
        (j # k /\ recJobs[j].state = "active" /\ recJobs[k].state = "active")
            => recJobs[j].meetingId # recJobs[k].meetingId
    /\ \A j, k \in EncJobIds :
        (j # k /\ encJobs[j].state = "active" /\ encJobs[k].state = "active")
            => encJobs[j].recordingId # encJobs[k].recordingId

\* C11: re-invoking the capture handler is idempotent.  A re-invocation that
\* finds the recording row an earlier invocation of the job created, and has
\* captured and uploaded again, goes on to complete the meeting with that one
\* row, as a single successful run does.
C11_ReinvocationCompletes ==
    [][\A j \in RecJobIds :
        (/\ RecAt(j, "create")
         /\ recJobs[j].attemptsMade >= 1
         /\ RecordingOf(recJobs[j].meetingId) # {}
         /\ recJobs'[j] # recJobs[j])
            => /\ recJobs'[j].pc = "complete"
               /\ Cardinality({r \in recordings' : r.meetingId = recJobs[j].meetingId}) = 1]_vars

(***************************************************************************)
(* Properties of the queues' retries.                                      *)
(***************************************************************************)
EncEnds(j) == encJobs[j].state = "active" /\ encJobs'[j].state # "active"

EncThrows(j) == EncEnds(j) /\ encJobs'[j].state \in {"waiting", "failed"}

\* What C12 asks of one job over one step, `attempts` being its queue's maximum.
AttemptsBounded(job, next, attempts) ==
    /\ next.attemptsMade >= job.attemptsMade
    /\ next.attemptsMade <= attempts
    /\ Invocations(next) <= attempts
    /\ next.state = "failed" <=> (next.attemptsMade = attempts /\ next.state # "completed")
    /\ job.state = "failed" => next = job

C13_MissingRecordNotRetried ==
    [][\A j \in RecJobIds :
        (/\ RecThrows(j)
         /\ recJobs[j].attemptsMade = 0
         /\ ~MeetingExists(recJobs[j].meetingId))
            => recJobs'[j].state = "failed"]_vars

\* Jobs waiting for a retry, with the base delay of their queue.
Retrying(jobs, backoff) ==
    {[job |-> jobs[j], backoff |-> backoff] :
        j \in {i \in DOMAIN jobs : jobs[i].state = "waiting" /\ jobs[i].attemptsMade >= 1}}

AllRetrying == Retrying(recJobs, RecordingBackoff) \cup Retrying(encJobs, EncodingBackoff)

Delivered(w) == CallAt(w, "done") /\ ~calls[w].faulted

\* C15: trigger keeps its caller waiting for the first attempt only: while
\* the caller still awaits trigger, no chain waits in a backoff or is at a
\* later attempt.
C15_CallerWaitsFirstAttemptOnly ==
    trigger.pc = "delivering" =>
        \A w \in WebhookIds : calls[w].attempt = 1 /\ ~CallAt(w, "backoff")

\* C16: a webhook's outcome and its number of attempts follow from the
\* responses of its own endpoint, whatever happens to the other webhooks: a
\* 2xx response ends the chain as a success at that attempt, with the row
\* of that attempt marked, and a chain without one POSTs once per attempt
\* until its own retryCount is used up.
C16_DeliveriesIndependent ==
    \A w \in WebhookIds :
        Delivered(w) =>
            /\ calls[w].posts = calls[w].attempt
            /\ Len(deliveries[w]) = calls[w].attempt
            /\ \/ /\ calls[w].result = "success"
                  /\ calls[w].oks = 1
                  /\ deliveries[w][calls[w].attempt] =
                        [attempt |-> calls[w].attempt, success |-> "true"]
               \/ /\ calls[w].result = "failure"
                  /\ calls[w].oks = 0
                  /\ calls[w].attempt >= webhooks[w].retryCount

\* One webhook is delivered at its first attempt while another has used up
\* a retryCount of two or more.
C16_Witness ==
    \E w, x \in WebhookIds :
        /\ Delivered(w) /\ calls[w].result = "success" /\ calls[w].posts = 1
        /\ Delivered(x) /\ calls[x].result = "failure"
        /\ webhooks[x].retryCount >= 2 /\ calls[x].posts = webhooks[x].retryCount

\* C17: a failed delivery (non-2xx, refused, retries used up) does not reach
\* the handler that published the event: a chain rejects, and with it
\* trigger, only when a database call rejected; whatever the endpoints
\* answer, the awaited trigger resolves and the handler goes on as after a
\* successful delivery.
C17_DeliveryFailureNotPropagated ==
    /\ \A w \in WebhookIds : CallAt(w, "rejected") => calls[w].faulted
    /\ trigger.pc = "rejected" => dbFaults > 0

\* trigger has resolved although a webhook used up its retries.
C17_Witness ==
    /\ trigger.pc = "resolved"
    /\ dbFaults = 0
    /\ \E w \in WebhookIds :
        /\ calls[w].result = "failure"
        /\ webhooks[w].retryCount >= 2
        /\ calls[w].attempt = webhooks[w].retryCount

\* C18: a chain whose endpoint failed at every attempt has made exactly
\* retryCount POSTs when it gives up, for every retryCount from 0 on.
C18_PostsEqualRetryCount ==
    \A w \in WebhookIds :
        (Delivered(w) /\ calls[w].oks = 0) =>
            /\ calls[w].result = "failure"
            /\ calls[w].posts = webhooks[w].retryCount

\* C19 as stated: the rows of a webhook are numbered 1, 2, ..., k.
C19_NumberedFromOne ==
    \A w \in WebhookIds :
        \A i \in 1..Len(deliveries[w]) : deliveries[w][i].attempt = i

\* C19 as amended: the rows of a webhook carry strictly increasing attempt
\* numbers, one row per POST made (the row of a POST still to be made is
\* written first); they are 1, 2, ..., k unless a database call rejected: an
\* attempt whose row could not be written makes no POST and leaves a gap.
C19_StrictlyIncreasing ==
    \A w \in WebhookIds :
        LET rows == deliveries[w] IN
        /\ \A i, k \in 1..Len(rows) : i < k => rows[i].attempt < rows[k].attempt
        /\ \A i \in 1..Len(rows) : rows[i].attempt \in 1..calls[w].attempt
        /\ Len(rows) = calls[w].posts + (IF CallAt(w, "post") THEN 1 ELSE 0)
        /\ ~calls[w].faulted => \A i \in 1..Len(rows) : rows[i].attempt = i

\* A chain has ended with two or more rows.
C19_Witness ==
    \E w \in WebhookIds :
        /\ calls[w].pc \in {"done", "rejected"}
        /\ Len(deliveries[w]) >= 2

\* C20: the signature header of every POST made is "sha256=" followed by
\* the HMAC-SHA256 of the posted body under the webhook's secret.
C20_SignatureMatchesBody ==
    \A w \in WebhookIds :
        calls[w].posts > 0 =>
            calls[w].request.headers[SignatureHeader] =
                <<"sha256=", HmacSha256(webhooks[w].secret, calls[w].request.body)>>

(***************************************************************************)
(* Properties of the chunk relay (specification Relay).                    *)
(***************************************************************************)
Relayed == {delivered[i].chunkIndex : i \in 1..Len(delivered)}

LiveSockets == {s \in DOMAIN sockets : sockets[s].state \in {"connecting", "open"}}

\* C21: the chunk indices the Destination receives are 0, 1, 2, ... in this
\* order: strictly increasing and without gaps.
C21_IndicesContiguous ==
    \A i \in 1..Len(delivered) : delivered[i].chunkIndex = i - 1

\* C22: once a successful capture has ended its stream, and every chunk it
\* built was received, the chunk received last carries the highest index
\* and is marked isFinal.
C22_LastChunkFinal ==
    (relay.pc = "done" /\ delivered # <<>> /\ Len(delivered) = relay.chunkIndex) =>
        /\ delivered[Len(delivered)].isFinal
        /\ \A k \in Relayed : k <= delivered[Len(delivered)].chunkIndex

\* C23: at most one socket of the Destination is open or being opened, and
\* no two relay calls await the opening of a socket at the same time.
C23_OneConnection ==
    /\ Cardinality(LiveSockets) <= 1
    /\ \A c, d \in Callers : (streams[c].pc = "open" /\ streams[d].pc = "open") => c = d

SendThrew(c) ==
    /\ streams[c].pc # "done"
    /\ streams'[c].pc = "done"
    /\ relay'.threw = relay.threw + 1

\* C24: the step in which a send on a socket throws leaves the map without
\* an entry for the Destination and sends the chunk on no socket (no frame
\* is added, the Destination receives nothing); a relay call that finds no
\* entry creates a new socket; a socket that opens has the auth frame as
\* its first frame; only a socket that has just opened enters the map, and
\* a socket outside the map is sent no chunk and no stream_end, so the
\* socket whose send threw is never used again.
C24_FailedSocketDropped ==
    [][/\ \A s \in DOMAIN sockets :
           LET frames == sockets'[s].frames
           IN (Len(frames) > Len(sockets[s].frames) /\ frames[Len(frames)].type # "auth") =>
                 (wsConnections = s \/ wsConnections' = s)
       /\ (wsConnections' \notin {0, wsConnections}) =>
             /\ wsConnections' \in DOMAIN sockets
             /\ sockets[wsConnections'].state = "connecting"
       /\ \A c \in Callers :
          /\ SendThrew(c) =>
                /\ wsConnections' = 0
                /\ delivered' = delivered
                /\ \A s \in DOMAIN sockets :
                      \A i \in 1..Len(sockets'[s].frames) : sockets'[s].frames[i].type # "chunk"
                         \/ (i <= Len(sockets[s].frames) /\ sockets[s].frames[i] = sockets'[s].frames[i])
          /\ (streams[c].pc = "configs" /\ streams'[c].pc = "open") =>
                /\ Len(sockets') = Len(sockets) + 1
                /\ sockets'[streams'[c].sock] = [state |-> "connecting", frames |-> <<>>,
                                                 after |-> relay.threw]
          /\ (streams[c].pc = "configs" /\ streams'[c].pc # "configs"
              /\ relay.type = "WEBSOCKET" /\ wsConnections = 0) =>
                \/ streams'[c].pc = "open"
                \/ /\ streams'[c].pc = "done"
                   /\ UNCHANGED <<sockets, wsConnections, delivered>>
          /\ (streams[c].pc = "open" /\ sockets'[streams[c].sock].state = "open") =>
                sockets'[streams[c].sock].frames[1] = AuthFrame]_vars

\* A send threw, and a socket created after it is open, is the entry of
\* the map and has sent the auth frame and a chunk.
C24_Witness ==
    \E s \in DOMAIN sockets :
        /\ sockets[s].after >= 1
        /\ sockets[s].state = "open"
        /\ wsConnections = s
        /\ Len(sockets[s].frames) >= 2
        /\ sockets[s].frames[1] = AuthFrame

InFlight == {c \in Callers : streams[c].pc \notin {"idle", "done"}}

\* The caller builds its chunk in this step.
Builds(c) == streams[c].pc = "idle" /\ streams'[c].pc = "configs"

\* C35: a chunk starts where the chunk relayed before it ended: when a
\* chunk is built, no chunk still being sent reaches past its first byte.
C35_RangesContiguous ==
    [][\A c \in Callers :
          Builds(c) => \A d \in InFlight : streams[d].size <= streams'[c].from]_vars

\* The "stream ended" notification of the session went out: notifyStreamEnd
\* resolved in the handler's body, or a socket carries the stream_end frame.
StreamEndSent ==
    \/ relay.pc = "done"
    \/ \E s \in DOMAIN sockets :
          \E k \in 1..Len(sockets[s].frames) : sockets[s].frames[k] = StreamEndFrame

\* C36: once the "stream ended" notification has been sent, no chunk of
\* the session reaches the Destination and no socket is created for it.
C36_NothingAfterStreamEnd ==
    [][StreamEndSent => /\ Len(sockets') = Len(sockets)
                         /\ delivered' = delivered]_vars

\* The capture still relays chunks and socket s is the one it sends them on.
RelaysOn(s) ==
    /\ relay.pc \in {"recording", "final", "flush"}
    /\ wsConnections = s
    /\ sockets[s].state = "open"

\* C40: the end of another session's stream never closes, or removes from
\* the map, the socket this session relays its chunks on.
C40_OtherEndKeepsSocket ==
    [][\A s \in DOMAIN sockets :
          RelaysOn(s) =>
             ~ /\ sockets'[s].state = "closed"
               /\ wsConnections' = 0
               /\ sockets'[s].frames = Append(sockets[s].frames, OtherStreamEndFrame)]_vars


(***************************************************************************)
(* Properties of the participant tracker (specification Tracker).          *)
(***************************************************************************)
EventsOf(log, type, id) == {k \in 1..Len(log) : log[k].type = type /\ log[k].id = id}

Appended == (Len(events) + 1)..Len(events')

\* The poll takes a step that does not abandon it.
PollSteps(p) ==
    /\ polls[p].pc = "run"
    /\ polls'[p] # polls[p]
    /\ polls'[p].pc # "aborted"

PollAt(p, id) == polls[p].pc = "run" /\ polls[p].snapshot[polls[p].i].id = id

\* C26 as stated: when a poll whose snapshot contains an id has ended, the
\* log has a joined event for the id.
C26_JoinedOnFirstTick ==
    [][\A p \in Polls :
          (polls[p].pc = "run" /\ polls'[p].pc \in {"done", "aborted"}) =>
              \A id \in CurrentIds(polls[p].snapshot) : EventsOf(events', "joined", id) # {}]_vars

\* C26: an id has at most one joined event; it is emitted by the first poll
\* that reaches the id in its snapshot (the id is not in the map, and a poll
\* that reaches an id not in the map emits joined), so an id that is in the
\* map, present or marked left, never emits joined again.
C26_JoinedOnce ==
    [][/\ \A id \in ParticipantIds : Cardinality(EventsOf(events', "joined", id)) <= 1
       /\ \A k \in Appended :
             events'[k].type = "joined" =>
                /\ ~tracker.participants[events'[k].id].known
                /\ \E p \in Polls : PollSteps(p) /\ PollAt(p, events'[k].id)
       /\ \A p \in Polls, id \in ParticipantIds :
             (PollSteps(p) /\ PollAt(p, id) /\ ~tracker.participants[id].known) =>
                \E k \in Appended : events'[k].type = "joined" /\ events'[k].id = id]_vars

\* The third poll has gone past "a", which an earlier poll had marked left:
\* the log still has the one joined event of "a", followed by its left.
C26_Witness ==
    /\ tracker.platform = "teams"
    /\ polls[3].pc = "run"
    /\ polls[3].i = 2
    /\ polls[3].snapshot[1].id = "a"
    /\ tracker.participants["a"].leftAt # Never
    /\ Cardinality(EventsOf(events, "joined", "a")) = 1
    /\ Cardinality(EventsOf(events, "left", "a")) = 1

\* C27: once stopTracking has run, every participant of the map has a left
\* timestamp and exactly one left event.
C27_AllLeftAfterStop ==
    tracker.stopped =>
        \A id \in ParticipantIds :
            tracker.participants[id].known =>
                /\ tracker.participants[id].leftAt # Never
                /\ Cardinality(EventsOf(events, "left", id)) = 1

\* C28: the events passed to the callback are the events of the log, each
\* once and in the order of the log.
C28_EveryEventForwarded ==
    forwarded = events

\* C29: the log of a tracker on the transient source (YouTube chat) holds no
\* left event, whether from a poll or from the stop.
C29_TransientNeverLeft ==
    tracker.platform = "youtube" =>
        \A k \in 1..Len(events) : events[k].type # "left"

\* C30: every event a poll appends to the log carries the timestamp the
\* poll read with its snapshot.
C30_SameTimestamp ==
    [][\A p \in Polls :
          PollSteps(p) => \A k \in Appended : events'[k].timestamp = polls[p].now]_vars

\* The snapshot of the poll that ends with this step: an empty roster ends
\* the poll in the step that reads it.
TickEnds(p, pcs) == polls[p].pc \in {"idle", "run"} /\ polls'[p].pc \in pcs

\* Participants of the map that a poll over the snapshot finds gone: known,
\* not in the snapshot and not marked left.
Gone(snapshot) ==
    {id \in ParticipantIds :
        /\ tracker.participants[id].known
        /\ id \notin CurrentIds(snapshot)
        /\ tracker.participants[id].leftAt = Never}

\* C33 as stated: when a tick of the Teams poll that read a snapshot is
\* over, every participant of the snapshot is in the map (its joined was
\* emitted) and every known participant absent from it is marked left.
C33_EveryTickComplete ==
    [][\A p \in Polls :
          (tracker.platform = "teams" /\ polls[p].pc = "run"
              /\ polls'[p].pc \in {"done", "aborted"}) =>
             /\ \A id \in CurrentIds(polls[p].snapshot) : tracker'.participants[id].known
             /\ \A id \in Gone(polls[p].snapshot) :
                   tracker'.participants[id].leftAt # Never]_vars

\* C33: a step of a Teams poll emits joined exactly when the element it
\* reads is not in the map; a tick that runs to its end has then gone
\* through its whole snapshot, and its last step emits left for exactly the
\* known participants absent from the snapshot and not marked left; no
\* other step of a poll emits left.
C33_TickEmitsJoinedAndLeft ==
    [][tracker.platform = "teams" =>
          \A p \in Polls :
             /\ PollSteps(p) =>
                   LET id == polls[p].snapshot[polls[p].i].id
                   IN {events'[k].id : k \in {n \in Appended : events'[n].type = "joined"}}
                         = IF tracker.participants[id].known THEN {} ELSE {id}
             /\ TickEnds(p, {"done"}) =>
                   LET snapshot == polls[p].snapshot
                   IN /\ polls[p].pc = "run" => polls[p].i = Len(snapshot)
                      /\ \A id \in CurrentIds(snapshot) : tracker'.participants[id].known
                      /\ {events'[k].id : k \in {n \in Appended : events'[n].type = "left"}}
                            = Gone(snapshot)
                      /\ \A id \in Gone(snapshot) :
                            Cardinality({k \in Appended : events'[k].type = "left"
                                                          /\ events'[k].id = id}) = 1
             /\ (polls'[p] # polls[p] /\ ~TickEnds(p, {"done"})) =>
                   \A k \in Appended : events'[k].type # "left"]_vars

\* The second Teams poll has ended: its snapshot had "b", who was new, and
\* not "a", who was known: the log has joined for "b" and left for "a".
C33_Witness ==
    /\ tracker.platform = "teams"
    /\ ~tracker.stopped
    /\ polls[2].pc = "done"
    /\ polls[3].pc = "idle"
    /\ EventsOf(events, "joined", "b") # {}
    /\ EventsOf(events, "left", "a") # {}
    /\ tracker.participants["b"].leftAt = Never

\* C34: the timestamps of the log never decrease along the log.
C34_TimestampsMonotonic ==
    \A k \in 1..(Len(events) - 1) : events[k].timestamp <= events[k + 1].timestamp

\* C37: once stopTracking has run, a poll still in flight changes neither
\* the participants map nor the log.
C37_FinalAfterStop ==
    [][tracker.stopped => /\ events' = events
                          /\ tracker'.participants = tracker.participants]_vars

\* C38: when a tick has gone through its snapshot, every participant of the
\* snapshot is stored without a left timestamp.
C38_PresentNotLeft ==
    [][\A p \in Polls :
          (polls[p].pc = "run" /\ polls'[p].pc = "done") =>
             \A id \in CurrentIds(polls[p].snapshot) :
                tracker'.participants[id].leftAt = Never]_vars



(***************************************************************************)
(* Properties of one transcode invocation (specification Transcode).       *)
(***************************************************************************)
\* The local files an invocation of job j made: the ones named with its
\* timestamp.
StagingFiles(j) ==
    {localRawPath(encJobs[j].recordingId, transcode.timestamp),
     localEncodedPath(encJobs[j].recordingId, transcode.timestamp)}

\* C31: when an invocation of the transcode handler ends, returned or
\* thrown, no local file it created is left in ./temp.
C31_StagingFilesRemoved ==
    [][\A j \in EncJobIds :
          EncEnds(j) => StagingFiles(j) \cap transcode'.temp = {}]_vars

\* C32: when an invocation of the transcode handler ends, the recording is
\* ENCODED with the encoded key and size if the handler returned, and
\* FAILED with the caught error's text if it threw; it is never ENCODING.
C32_EndsEncodedOrFailed ==
    [][\A j \in EncJobIds :
          EncEnds(j) =>
             LET id == encJobs[j].recordingId
                 r == CHOOSE x \in recordings' : x.id = id
             IN IF EncThrows(j)
                THEN r.status = "FAILED" /\ r.error = transcode.error
                ELSE /\ r.status = "ENCODED"
                     /\ r.encodedFilePath = encodedMinioKey(id, transcode.timestamp)
                     /\ r.encodedFileSize = transcode.size]_vars


(***************************************************************************)
(* Properties of one capture invocation's end (specification Capture).     *)
(***************************************************************************)
\* The terminal session events the running invocation of job j published.
TerminalEvents(j, log) ==
    {k \in 1..Len(log) : log[k].job = j /\ log[k].attempt = recJobs[j].attemptsMade + 1}

\* C39: when an invocation of the capture handler ends, it has published
\* exactly one terminal session event, MEETING_COMPLETED or MEETING_FAILED.
C39_OneTerminalEvent ==
    [][\A j \in RecJobIds :
          RecEnds(j) => Cardinality(TerminalEvents(j, sessionEvents')) = 1]_vars

====
